---- MODULE Spec2Model ----
(***************************************************************************)
(* The Profile screen of gobarber-mobile (src/src/pages/Profile/index.tsx): *)
(* the profile update flow (handleSubmit) and the avatar update flow       *)
(* (handleUpdateAvatar), each invocation an asynchronous sequence that is  *)
(* suspended at every await and resumed by an event of the environment     *)
(* (a permission answer, the image chooser's callback, an HTTP response,   *)
(* the session store finishing updateUser).                                *)
(***************************************************************************)
EXTENDS Integers, Sequences, FiniteSets, TLC

\* ---------------------------------------------------------------- bounds
\* Number of handler invocations (button presses) of one run.
MaxFlows == 2

Flows == 1..MaxFlows

\* Values the user can type in the form's inputs.
Names == {"", "Ana"}
Emails == {"", "bad", "a@x.com"}
OldPasswords == {"", "old"}
Passwords == {"", "p1", "p2"}

\* interface ProfileFormData
ProfileFormData ==
  [name: Names, email: Emails, old_password: OldPasswords,
   password: Passwords, password_confirmation: Passwords]

\* The forms submitted while several invocations run: a valid name and
\* e-mail, with and without a password change, confirmed or not.
ConcurrentForms ==
  {d \in ProfileFormData :
     d.name = "Ana" /\ d.email = "a@x.com" /\ d.password = "p1"}

\* The session user when the screen opens, and the records the API returns.
InitUser == [id |-> "u1", name |-> "Old", email |-> "o@x.com", avatar_url |-> "a0"]
ServerUsers ==
  {[id |-> "u1", name |-> "Ana", email |-> "a@x.com"],
   [id |-> "u1", avatar_url |-> "a1"]}

\* ------------------------------------------------------------ validation
\* Yup.string().email(): the inputs of Emails that are e-mail addresses.
IsEmail(s) == s = "a@x.com"

Err(path, message) == [path |-> path, message |-> message]

\* name: Yup.string().required('Nome obrigatorio')
NameErrors(data) ==
  IF data.name = "" THEN <<Err("name", "Nome obrigatorio")>> ELSE <<>>

\* email: required, then email (the e-mail test passes on the empty string)
EmailErrors(data) ==
  IF data.email = "" THEN <<Err("email", "E-mail obrigatorio")>>
  ELSE IF ~IsEmail(data.email) THEN <<Err("email", "Digite um e-mail valido")>>
  ELSE <<>>

\* password: required only when old_password is truthy
PasswordErrors(data) ==
  IF data.old_password # "" /\ data.password = ""
  THEN <<Err("password", "Campo obrigatorio")>> ELSE <<>>

\* ConfirmationErrors with the required test deciding before oneOf.
ConfirmationErrorsRequiredFirst(data) ==
  IF data.old_password # "" /\ data.password_confirmation = ""
  THEN <<Err("password_confirmation", "Campo obrigatorio")>>
  ELSE IF data.password_confirmation # data.password
  THEN <<Err("password_confirmation", "Confirmacao incorreta")>>
  ELSE <<>>

\* password_confirmation: oneOf([ref('password'), null]) is tested first and
\* its failure ends the field's validation; otherwise required when
\* old_password is truthy.
ConfirmationErrors(data) ==
  IF data.password_confirmation # data.password
  THEN <<Err("password_confirmation", "Confirmacao incorreta")>>
  ELSE IF data.old_password # "" /\ data.password_confirmation = ""
  THEN <<Err("password_confirmation", "Campo obrigatorio")>>
  ELSE <<>>

\* Validate with abortEarly: true: the first error only.
ValidateAbortEarly(data) ==
  LET all == NameErrors(data) \o EmailErrors(data) \o PasswordErrors(data)
               \o ConfirmationErrors(data)
  IN  IF all = <<>> THEN <<>> ELSE <<all[1]>>

\* schema.validate(data, { abortEarly: false }): err.inner, every field's errors
Validate(data) ==
  NameErrors(data) \o EmailErrors(data) \o PasswordErrors(data)
    \o ConfirmationErrors(data)

\* getValidationErrors(err): errors[error.path] = error.message, later wins
RECURSIVE getValidationErrors(_)
getValidationErrors(inner) ==
  IF inner = <<>> THEN <<>>
  ELSE LET rest == getValidationErrors(SubSeq(inner, 1, Len(inner) - 1))
           last == inner[Len(inner)]
       IN  [p \in (DOMAIN rest) \cup {last.path} |->
              IF p = last.path THEN last.message ELSE rest[p]]

\* FormData with the spread decided by password instead of old_password.
FormDataByPassword(data) ==
  IF data.password # ""
  THEN [name |-> data.name, email |-> data.email,
        old_password |-> data.old_password, password |-> data.password,
        password_confirmation |-> data.password_confirmation]
  ELSE [name |-> data.name, email |-> data.email]

\* const formData = { name, email, ...(old_password ? {...} : {}) }
FormData(data) ==
  IF data.old_password # ""
  THEN [name |-> data.name, email |-> data.email,
        old_password |-> data.old_password, password |-> data.password,
        password_confirmation |-> data.password_confirmation]
  ELSE [name |-> data.name, email |-> data.email]

\* ------------------------------------------------------------------ state
\* PermissionsAndroid.PERMISSIONS, in the order handleUpdateAvatar asks
PermissionOrder == <<"CAMERA", "READ_EXTERNAL_STORAGE", "WRITE_EXTERNAL_STORAGE">>
Permissions == {PermissionOrder[i] : i \in DOMAIN PermissionOrder}

\* Alert.alert titles/messages
AlertProfileUpdated == "Perfil atualizado!"
AlertUpdateError == "Erro na atualizacao"
AlertAvatarError == "Erro ao atualizar seu avatar."
AlertAvatarRequestError == "Erro ao atualizar o seu avatar"
AlertPermission(p) ==
  IF p = "CAMERA" THEN "Permissao necessaria: camera"
  ELSE IF p = "READ_EXTERNAL_STORAGE" THEN "Permissao necessaria: carregar arquivos"
  ELSE "Permissao necessaria: salvar fotos"

\* The image chooser's response, as far as the callback reads it.
ChooserResponses == [didCancel: BOOLEAN, error: BOOLEAN]

VARIABLES
  os,          \* Platform.OS
  mounted,     \* the Profile screen is on top of the navigation stack
  user,        \* useAuth().user: the session user
  formErrors,  \* the errors formRef.current holds
  flow         \* the invocations of handleSubmit / handleUpdateAvatar

vars == <<os, mounted, user, formErrors, flow>>

\* An invocation that has not started. Besides its position (pc) and locals
\* (data, formData, response, permission results) an invocation records
\* what it has done: the calls it made to its collaborators.
IdleFlow ==
  [kind |-> "none", pc |-> "idle", outcome |-> "none",
   data |-> <<>>, formData |-> <<>>, errors |-> <<>>, response |-> <<>>,
   inner |-> <<>>, picked |-> <<>>, updating |-> <<>>,
   granted |-> [p \in Permissions |-> "unchecked"], checked |-> <<>>,
   alerts |-> <<>>, goBacks |-> 0, puts |-> 0, patches |-> 0,
   choosers |-> 0, updateCalls |-> 0, wrote |-> <<>>]

Init ==
  /\ os \in {"android", "ios"}
  /\ mounted = TRUE
  /\ user = InitUser
  /\ formErrors = <<>>
  /\ flow = [f \in Flows |-> IdleFlow]

\* Positions where an invocation waits for a permission call, the image
\* chooser or a network call.
SuspendedPcs == {"check", "request", "chooser", "put", "patch"}
Suspended(f) == flow[f].pc \in SuspendedPcs

\* A permission request and the image chooser are native dialogs over the
\* screen: its buttons cannot be pressed while one is open.
ModalOpen == \E f \in Flows : flow[f].pc \in {"request", "chooser"}

\* The next press starts the first invocation not yet used.
CanPress(f) ==
  /\ mounted
  /\ ~ModalOpen
  /\ flow[f].pc = "idle"
  /\ \A g \in Flows : g < f => flow[g].pc # "idle"

\* updateUser(record) of hooks/auth: replaces the session user
UpdateUser(current, record) == record

\* ------------------------------------------------------------ handleSubmit
\* Lines 53-98 and 108-115: setErrors({}), validate, then either the catch
\* branch of a Yup.ValidationError or the call of api.put.
HandleSubmit(f, data) ==
  /\ CanPress(f)
  /\ LET inner == Validate(data)
     IN  IF inner # <<>>
         THEN /\ formErrors' = getValidationErrors(inner)
              /\ flow' = [flow EXCEPT ![f] =
                   [@ EXCEPT !.kind = "submit", !.pc = "done",
                             !.outcome = "invalid", !.data = <<data>>,
                             !.inner = inner,
                             !.errors = <<getValidationErrors(inner)>>]]
         ELSE /\ formErrors' = <<>>
              /\ flow' = [flow EXCEPT ![f] =
                   [@ EXCEPT !.kind = "submit", !.pc = "put",
                             !.data = <<data>>,
                             !.formData = <<FormData(data)>>,
                             !.puts = @ + 1]]
  /\ UNCHANGED <<os, mounted, user>>

\* PutResolved with updateUser({ ...user, ...response.data }): a merge.
PutResolvedMerge(f, record) ==
  /\ flow[f].pc = "put"
  /\ LET response == [data |-> record]
         merged == [k \in (DOMAIN user) \cup (DOMAIN record) |->
                      IF k \in DOMAIN record THEN record[k] ELSE user[k]]
     IN  flow' = [flow EXCEPT ![f] =
           [@ EXCEPT !.pc = "updating", !.response = <<response>>,
                     !.updating = <<merged>>,
                     !.updateCalls = @ + 1]]
  /\ UNCHANGED <<os, mounted, user, formErrors>>

\* Line 98 resolves, line 100 calls updateUser(response.data)
PutResolved(f, record) ==
  /\ flow[f].pc = "put"
  /\ LET response == [data |-> record]
     IN  flow' = [flow EXCEPT ![f] =
           [@ EXCEPT !.pc = "updating", !.response = <<response>>,
                     !.updating = <<response.data>>,
                     !.updateCalls = @ + 1]]
  /\ UNCHANGED <<os, mounted, user, formErrors>>

\* PutRejected with goBack() moved to a finally block.
PutRejectedGoBack(f) ==
  /\ flow[f].pc = "put"
  /\ flow' = [flow EXCEPT ![f] =
       [@ EXCEPT !.pc = "done", !.outcome = "request_failed",
                 !.alerts = Append(@, AlertUpdateError),
                 !.goBacks = @ + 1]]
  /\ mounted' = FALSE
  /\ UNCHANGED <<os, user, formErrors>>

\* Line 98 rejects: the catch block's generic alert (lines 117-120)
PutRejected(f) ==
  /\ flow[f].pc = "put"
  /\ flow' = [flow EXCEPT ![f] =
       [@ EXCEPT !.pc = "done", !.outcome = "request_failed",
                 !.alerts = Append(@, AlertUpdateError)]]
  /\ UNCHANGED <<os, mounted, user, formErrors>>

\* Lines 102-107, after await updateUser: the alert and goBack()
SubmitResumed(f) ==
  /\ flow[f].kind = "submit"
  /\ flow[f].pc = "updated"
  /\ flow' = [flow EXCEPT ![f] =
       [@ EXCEPT !.pc = "done", !.outcome = "success",
                 !.alerts = Append(@, AlertProfileUpdated),
                 !.goBacks = @ + 1]]
  /\ mounted' = FALSE
  /\ UNCHANGED <<os, user, formErrors>>

\* ---------------------------------------------------------- session store
\* updateUser finishes: the session user is replaced. handleSubmit awaits
\* it (line 100); the avatar flow's then-callback (line 247) does not.
UpdateUserResolved(f) ==
  /\ flow[f].pc = "updating"
  /\ user' = UpdateUser(user, flow[f].updating[1])
  /\ flow' = [flow EXCEPT ![f] =
       IF @.kind = "submit"
       THEN [@ EXCEPT !.pc = "updated", !.wrote = <<user'>>]
       ELSE [@ EXCEPT !.pc = "done", !.outcome = "success", !.wrote = <<user'>>]]
  /\ UNCHANGED <<os, mounted, formErrors>>

\* updateUser fails: handleSubmit's catch block alerts (lines 117-120); the
\* avatar flow's promise is dropped, so nothing is shown.
UpdateUserRejected(f) ==
  /\ flow[f].pc = "updating"
  /\ flow' = [flow EXCEPT ![f] =
       IF @.kind = "submit"
       THEN [@ EXCEPT !.pc = "done", !.outcome = "update_failed",
                      !.alerts = Append(@, AlertUpdateError)]
       ELSE [@ EXCEPT !.pc = "done", !.outcome = "update_failed"]]
  /\ UNCHANGED <<os, mounted, user, formErrors>>

\* handleGoBack (lines 126-128)
HandleGoBack ==
  /\ mounted
  /\ ~ModalOpen
  /\ mounted' = FALSE
  /\ UNCHANGED <<os, user, formErrors, flow>>

\* ------------------------------------------------------ handleUpdateAvatar
\* ImagePicker.showImagePicker(options, callback), line 216
ShowImagePicker(fl) == [fl EXCEPT !.pc = "chooser", !.choosers = @ + 1]

\* AfterPermissions without the return statements of lines 194, 203, 212.
AfterPermissionsNoReturn(fl) ==
  LET a1 == IF fl.granted["CAMERA"] # "granted"
            THEN <<AlertPermission("CAMERA")>> ELSE <<>>
      a2 == IF fl.granted["READ_EXTERNAL_STORAGE"] # "granted"
            THEN <<AlertPermission("READ_EXTERNAL_STORAGE")>> ELSE <<>>
      a3 == IF fl.granted["WRITE_EXTERNAL_STORAGE"] # "granted"
            THEN <<AlertPermission("WRITE_EXTERNAL_STORAGE")>> ELSE <<>>
  IN  ShowImagePicker([fl EXCEPT !.alerts = @ \o a1 \o a2 \o a3])

\* Lines 188-216, once the three request...Permissions() calls of lines
\* 184-186 have returned: the alert of the first permission not granted, or
\* the image chooser.
AfterPermissions(fl) ==
  IF fl.granted["CAMERA"] # "granted"
  THEN [fl EXCEPT !.pc = "done", !.outcome = "denied",
                  !.alerts = Append(@, AlertPermission("CAMERA"))]
  ELSE IF fl.granted["READ_EXTERNAL_STORAGE"] # "granted"
  THEN [fl EXCEPT !.pc = "done", !.outcome = "denied",
                  !.alerts = Append(@, AlertPermission("READ_EXTERNAL_STORAGE"))]
  ELSE IF fl.granted["WRITE_EXTERNAL_STORAGE"] # "granted"
  THEN [fl EXCEPT !.pc = "done", !.outcome = "denied",
                  !.alerts = Append(@, AlertPermission("WRITE_EXTERNAL_STORAGE"))]
  ELSE ShowImagePicker(fl)

\* PermissionsAndroid.check(permission) is called (lines 131, 149, 167)
CheckPermission(fl, i) ==
  [fl EXCEPT !.pc = "check", !.checked = Append(@, PermissionOrder[i])]

\* A request...Permissions() call returns `result` for the permission it is
\* about: lines 184-186 go on to the next one, whatever the result.
PermissionReturned(fl, result) ==
  LET i == Len(fl.checked)
      next == [fl EXCEPT !.granted[PermissionOrder[i]] = result]
  IN  IF i < Len(PermissionOrder) THEN CheckPermission(next, i + 1)
      ELSE AfterPermissions(next)

\* The press of the avatar button: line 183
HandleUpdateAvatar(f) ==
  /\ CanPress(f)
  /\ flow' = [flow EXCEPT ![f] =
       IF os = "android"
       THEN CheckPermission([@ EXCEPT !.kind = "avatar"], 1)
       ELSE ShowImagePicker([@ EXCEPT !.kind = "avatar"])]
  /\ UNCHANGED <<os, mounted, user, formErrors>>

\* PermissionsAndroid.check resolves (lines 131-143, 149-161, 167-179)
PermissionChecked(f, has) ==
  /\ flow[f].pc = "check"
  /\ flow' = [flow EXCEPT ![f] =
       IF has THEN PermissionReturned(@, "granted")
       ELSE [@ EXCEPT !.pc = "request"]]
  /\ UNCHANGED <<os, mounted, user, formErrors>>

\* PermissionsAndroid.request resolves (lines 136-140, 154-158, 172-176)
PermissionRequested(f, requestResult) ==
  /\ flow[f].pc = "request"
  /\ flow' = [flow EXCEPT ![f] =
       PermissionReturned(@, IF requestResult = "granted" THEN "granted" ELSE "denied")]
  /\ UNCHANGED <<os, mounted, user, formErrors>>

\* ChooserCallback with response.error tested before response.didCancel.
ChooserCallbackErrorFirst(f, response) ==
  /\ flow[f].pc = "chooser"
  /\ flow' = [flow EXCEPT ![f] =
       IF response.error
       THEN [@ EXCEPT !.pc = "done", !.outcome = "chooser_error",
                      !.picked = <<response>>,
                      !.alerts = Append(@, AlertAvatarError)]
       ELSE IF response.didCancel
       THEN [@ EXCEPT !.pc = "done", !.outcome = "cancelled",
                      !.picked = <<response>>]
       ELSE [@ EXCEPT !.pc = "patch", !.picked = <<response>>,
                      !.patches = @ + 1]]
  /\ UNCHANGED <<os, mounted, user, formErrors>>

\* The image chooser's callback, lines 226-245
ChooserCallback(f, response) ==
  /\ flow[f].pc = "chooser"
  /\ flow' = [flow EXCEPT ![f] =
       IF response.didCancel
       THEN [@ EXCEPT !.pc = "done", !.outcome = "cancelled",
                      !.picked = <<response>>]
       ELSE IF response.error
       THEN [@ EXCEPT !.pc = "done", !.outcome = "chooser_error",
                      !.picked = <<response>>,
                      !.alerts = Append(@, AlertAvatarError)]
       ELSE [@ EXCEPT !.pc = "patch", !.picked = <<response>>,
                      !.patches = @ + 1]]
  /\ UNCHANGED <<os, mounted, user, formErrors>>

\* api.patch resolves: the then-callback calls updateUser (lines 246-248)
PatchResolved(f, record) ==
  /\ flow[f].pc = "patch"
  /\ LET apiResponse == [data |-> record]
     IN  flow' = [flow EXCEPT ![f] =
           [@ EXCEPT !.pc = "updating", !.response = <<apiResponse>>,
                     !.updating = <<apiResponse.data>>,
                     !.updateCalls = @ + 1]]
  /\ UNCHANGED <<os, mounted, user, formErrors>>

\* PatchRejected with updateUser called on the error, as on a response.
PatchRejectedUpdates(f) ==
  /\ flow[f].pc = "patch"
  /\ flow' = [flow EXCEPT ![f] =
       [@ EXCEPT !.pc = "updating", !.updating = <<[id |-> "error"]>>,
                 !.updateCalls = @ + 1,
                 !.alerts = Append(@, AlertAvatarRequestError)]]
  /\ UNCHANGED <<os, mounted, user, formErrors>>

\* api.patch rejects: the catch-callback's alert (lines 249-254)
PatchRejected(f) ==
  /\ flow[f].pc = "patch"
  /\ flow' = [flow EXCEPT ![f] =
       [@ EXCEPT !.pc = "done", !.outcome = "request_failed",
                 !.alerts = Append(@, AlertAvatarRequestError)]]
  /\ UNCHANGED <<os, mounted, user, formErrors>>

\* ---------------------------------------------------------- specification
RequestResults == {"granted", "denied", "never_ask_again"}

Next ==
  \/ \E f \in Flows, data \in ConcurrentForms : HandleSubmit(f, data)
  \/ \E f \in Flows, record \in ServerUsers : PutResolved(f, record)
  \/ \E f \in Flows : PutRejected(f)
  \/ \E f \in Flows : SubmitResumed(f)
  \/ \E f \in Flows : UpdateUserResolved(f)
  \/ \E f \in Flows : UpdateUserRejected(f)
  \/ HandleGoBack
  \/ \E f \in Flows : HandleUpdateAvatar(f)
  \/ \E f \in Flows, has \in BOOLEAN : PermissionChecked(f, has)
  \/ \E f \in Flows, r \in RequestResults : PermissionRequested(f, r)
  \/ \E f \in Flows, response \in ChooserResponses : ChooserCallback(f, response)
  \/ \E f \in Flows, record \in ServerUsers : PatchResolved(f, record)
  \/ \E f \in Flows : PatchRejected(f)

Spec == Init /\ [][Next]_vars

\* One invocation of handleSubmit, on every form of ProfileFormData.
FirstFlow == CHOOSE f \in Flows : \A g \in Flows : f <= g

NextSubmit ==
  \/ \E data \in ProfileFormData : HandleSubmit(FirstFlow, data)
  \/ \E record \in ServerUsers : PutResolved(FirstFlow, record)
  \/ PutRejected(FirstFlow)
  \/ UpdateUserResolved(FirstFlow)
  \/ UpdateUserRejected(FirstFlow)
  \/ SubmitResumed(FirstFlow)

SpecSubmit == Init /\ [][NextSubmit]_vars

\* ----------------------------------------------------------------- claims
Submits == {f \in Flows : flow[f].kind = "submit"}
Avatars == {f \in Flows : flow[f].kind = "avatar"}

\* Some other invocation's updateUser has replaced the session user.
OthersWrote(f) == \E g \in Flows \ {f} : flow[g].wrote # <<>>

\* What invocation f has left untouched: no call of updateUser, and the
\* session user still the initial one unless another invocation replaced it.
NoSessionUpdate(f) ==
  /\ flow[f].updateCalls = 0
  /\ flow[f].wrote = <<>>
  /\ ~OthersWrote(f) => user = InitUser

AllFields == {"name", "email", "old_password", "password", "password_confirmation"}

\* C1: a form that passes validation is sent to PUT /profile as {name, email}
\* when old_password is empty (whatever password and password_confirmation
\* hold), and with the five fields, each with the form's value, otherwise.
C1_Payload ==
  \A f \in Submits :
    LET d == flow[f].data[1]
    IN  flow[f].outcome # "invalid" =>
          /\ flow[f].puts = 1
          /\ flow[f].formData # <<>>
          /\ LET b == flow[f].formData[1]
             IN  IF d.old_password = ""
                 THEN /\ DOMAIN b = {"name", "email"}
                      /\ b.name = d.name /\ b.email = d.email
                 ELSE /\ DOMAIN b = AllFields
                      /\ \A k \in AllFields : b[k] = d[k]

C1_Witness ==
  \E f \in Submits :
    /\ flow[f].puts = 1
    /\ flow[f].data[1].old_password = ""
    /\ flow[f].data[1].password # ""
    /\ DOMAIN flow[f].formData[1] = {"name", "email"}

\* C2: on android, once a permission is found denied no later permission is
\* checked or requested; with camera granted and read-storage denied the
\* chooser is not invoked and write-storage is never checked.
C2_NoCheckAfterDenial ==
  \A f \in Avatars :
    \A i, j \in DOMAIN PermissionOrder :
      (i < j /\ flow[f].granted[PermissionOrder[i]] = "denied") =>
        /\ flow[f].choosers = 0
        /\ \A k \in DOMAIN flow[f].checked :
             flow[f].checked[k] # PermissionOrder[j]

\* C3: no second handleSubmit or handleUpdateAvatar invocation is under way
\* while an earlier one is suspended at a permission call, the image chooser
\* or a network call.
C3_NoConcurrentFlows ==
  \A f, g \in Flows : f # g => ~(Suspended(f) /\ Suspended(g))

\* C4: when PUT /profile succeeds with record R, the invocation's session
\* update leaves the session user equal to R (a replacement, not a merge),
\* that update is complete before the success alert and goBack(), and both
\* then happen exactly once.
C4_SuccessReplacesUser ==
  \A f \in Submits :
    /\ flow[f].pc = "updating" =>
         flow[f].wrote = <<>> /\ flow[f].alerts = <<>> /\ flow[f].goBacks = 0
    /\ flow[f].pc = "updated" =>
         /\ flow[f].wrote = <<flow[f].response[1].data>>
         /\ flow[f].alerts = <<>> /\ flow[f].goBacks = 0
    /\ (flow[f].goBacks > 0 \/ flow[f].outcome = "success") =>
         /\ flow[f].outcome = "success"
         /\ flow[f].updateCalls = 1
         /\ flow[f].wrote = <<flow[f].response[1].data>>
         /\ flow[f].alerts = <<AlertProfileUpdated>>
         /\ flow[f].goBacks = 1
         /\ ~OthersWrote(f) => user = flow[f].response[1].data

C4_Witness ==
  \E f \in Submits :
    /\ flow[f].outcome = "success"
    /\ user = flow[f].response[1].data
    /\ DOMAIN user # DOMAIN InitUser

\* C5: with old_password non-empty and password different from
\* password_confirmation, validation fails with the confirmation-mismatch
\* error on password_confirmation, no PUT /profile is sent, the session user
\* is not updated, no alert is shown and goBack() is not called.
C5_ConfirmationMismatch ==
  \A f \in Submits :
    LET d == flow[f].data[1]
    IN  (d.old_password # "" /\ d.password # d.password_confirmation) =>
          /\ flow[f].outcome = "invalid"
          /\ \E i \in DOMAIN flow[f].inner :
               flow[f].inner[i] =
                 Err("password_confirmation", "Confirmacao incorreta")
          /\ \A i \in DOMAIN flow[f].inner :
               flow[f].inner[i].path = "password_confirmation" =>
                 flow[f].inner[i].message = "Confirmacao incorreta"
          /\ flow[f].errors # <<>>
          /\ "password_confirmation" \in DOMAIN flow[f].errors[1]
          /\ flow[f].errors[1]["password_confirmation"] = "Confirmacao incorreta"
          /\ formErrors = flow[f].errors[1]
          /\ flow[f].puts = 0
          /\ NoSessionUpdate(f)
          /\ flow[f].alerts = <<>>
          /\ flow[f].goBacks = 0

C5_Witness ==
  \E f \in Submits :
    /\ flow[f].data[1].old_password # ""
    /\ flow[f].data[1].password # ""
    /\ flow[f].data[1].password_confirmation = ""
    /\ flow[f].outcome = "invalid"
    /\ flow[f].errors[1]["password_confirmation"] = "Confirmacao incorreta"

\* C6: on android, when one of the three permissions ends up denied the image
\* chooser is never invoked, no PATCH /users/avatar is sent, the session user
\* is unchanged, and exactly one permission alert is shown: that of the first
\* denied permission in the order camera, read-storage, write-storage.
FirstDenied(fl) ==
  PermissionOrder[
    CHOOSE i \in DOMAIN PermissionOrder :
      /\ fl.granted[PermissionOrder[i]] = "denied"
      /\ \A j \in DOMAIN PermissionOrder :
           j < i => fl.granted[PermissionOrder[j]] # "denied"]

C6_DenialStopsFlow ==
  \A f \in Avatars :
    (\E p \in Permissions : flow[f].granted[p] = "denied") =>
      /\ flow[f].pc \in {"check", "request", "done"}
      /\ flow[f].choosers = 0
      /\ flow[f].patches = 0
      /\ NoSessionUpdate(f)
      /\ flow[f].pc # "done" => flow[f].alerts = <<>>
      /\ flow[f].pc = "done" =>
           flow[f].alerts = <<AlertPermission(FirstDenied(flow[f]))>>

C6_Witness ==
  \E f \in Avatars :
    /\ flow[f].pc = "done"
    /\ flow[f].granted["CAMERA"] = "granted"
    /\ flow[f].granted["READ_EXTERNAL_STORAGE"] = "denied"
    /\ flow[f].granted["WRITE_EXTERNAL_STORAGE"] = "denied"
    /\ flow[f].alerts = <<AlertPermission("READ_EXTERNAL_STORAGE")>>

\* C7: when validation passes and PUT /profile, or the session update after
\* it, fails, the generic error alert is shown exactly once, the session user
\* is unchanged, no field errors are attached, the success alert is not shown
\* and goBack() is not called.
C7_FailureMutatesNothing ==
  \A f \in Submits :
    flow[f].outcome \in {"request_failed", "update_failed"} =>
      /\ flow[f].pc = "done"
      /\ flow[f].alerts = <<AlertUpdateError>>
      /\ flow[f].wrote = <<>>
      /\ ~OthersWrote(f) => user = InitUser
      /\ flow[f].errors = <<>>
      /\ flow[f].goBacks = 0

C7_Witness ==
  /\ \E f \in Submits :
       flow[f].outcome = "request_failed" /\ flow[f].alerts = <<AlertUpdateError>>
  /\ \E f \in Submits :
       flow[f].outcome = "update_failed" /\ flow[f].alerts = <<AlertUpdateError>>

\* C8: when the image chooser reports didCancel, also together with an error,
\* the flow ends with no alert, no PATCH /users/avatar and the session user
\* unchanged.
C8_CancelIsSilent ==
  \A f \in Avatars :
    (flow[f].picked # <<>> /\ flow[f].picked[1].didCancel) =>
      /\ flow[f].pc = "done"
      /\ flow[f].outcome = "cancelled"
      /\ flow[f].alerts = <<>>
      /\ flow[f].patches = 0
      /\ NoSessionUpdate(f)

C8_Witness ==
  \E f \in Avatars :
    /\ flow[f].picked # <<>>
    /\ flow[f].picked[1].didCancel
    /\ flow[f].picked[1].error
    /\ flow[f].pc = "done"

\* C9: with name empty, validation fails with the required-field error on
\* name whatever the other fields hold, no PUT /profile is sent, and every
\* other invalid field has its error in the same failure.
C9_NameRequired ==
  \A f \in Submits :
    LET d == flow[f].data[1]
    IN  d.name = "" =>
          /\ flow[f].outcome = "invalid"
          /\ flow[f].puts = 0
          /\ \E i \in DOMAIN flow[f].inner :
               flow[f].inner[i] = Err("name", "Nome obrigatorio")
          /\ flow[f].errors # <<>>
          /\ LET e == flow[f].errors[1]
             IN  /\ DOMAIN e = {flow[f].inner[i].path : i \in DOMAIN flow[f].inner}
                 /\ "name" \in DOMAIN e
                 /\ e["name"] = "Nome obrigatorio"
                 /\ ("email" \in DOMAIN e) <=> (d.email # "a@x.com")
                 /\ ("password" \in DOMAIN e) <=>
                      (d.old_password # "" /\ d.password = "")
                 /\ ("password_confirmation" \in DOMAIN e) <=>
                      \/ d.password_confirmation # d.password
                      \/ d.old_password # "" /\ d.password_confirmation = ""

C9_Witness ==
  \E f \in Submits :
    /\ flow[f].data[1].name = ""
    /\ flow[f].outcome = "invalid"
    /\ DOMAIN flow[f].errors[1] = {"name", "email", "password", "password_confirmation"}

\* C10: the session user is always the initial user or a record a successful
\* PUT /profile or PATCH /users/avatar returned; an invocation calls
\* updateUser at most once, and never when it ended in a validation failure,
\* a permission denial, a chooser cancellation, a chooser error or a failed
\* request.
Returned ==
  {flow[f].response[1].data : f \in {g \in Flows : flow[g].response # <<>>}}

C10_SessionUserFromResponses ==
  /\ user \in {InitUser} \cup Returned
  /\ \A f \in Flows :
       /\ flow[f].updateCalls <= 1
       /\ flow[f].updateCalls = 1 => flow[f].response # <<>>
       /\ flow[f].outcome \in {"invalid", "denied", "cancelled",
                               "chooser_error", "request_failed"} =>
            flow[f].updateCalls = 0 /\ flow[f].wrote = <<>>

C10_Witness ==
  \E f \in Submits, g \in Avatars :
    /\ flow[f].wrote # <<>>
    /\ flow[g].wrote # <<>>
    /\ flow[f].wrote # flow[g].wrote
    /\ user # InitUser

====
